---- MODULE Spec2Model ----
(***************************************************************************)
(* A model of ThreatIntel-GPT's correlation and scoring core:              *)
(*   correlator.py  ThreatCorrelator (the type-partitioned threat store,   *)
(*                  the similarity heuristics, find_related)               *)
(*   mitre.py       MITREMapper (keyword matching against the catalog)     *)
(*   analyzer.py    ThreatAnalyzer (scoring, severity, analyze_ioc)        *)
(*                                                                         *)
(* Conventions.  A Python str is a sequence of one-character strings, so   *)
(* that split, slicing, lower() and the substring test are computed and    *)
(* not assumed.  A float that the code only ever compares or returns is    *)
(* kept as an exact integer: a similarity in tenths (0.8 is 8), a          *)
(* confidence in hundredths (0.7 is 70), a score in hundredths (38.5 is    *)
(* 3850).  Python's None is the string "None".                             *)
(***************************************************************************)
EXTENDS Integers, Sequences, FiniteSets, TLC

VARIABLES
    threat_database,  \* ThreatCorrelator.threat_database: a dict in key order
    cache,            \* the key-value cache behind ThreatAnalyzer.cache
    now,              \* the clock datetime.utcnow() reads
    calls,            \* history: add_threat calls made so far, per ioc_type
    input,            \* the arguments drawn for a call of a pure function
    config,           \* ThreatAnalyzer as constructed: its llm and whether it has a cache
    mitre_memo,       \* map_to_mitre on the descriptions that occur, computed once
    host,             \* the machine: the MITRE data file, the requests sent, the mapper
    op                \* the last operation: its name, arguments and result

vars == <<threat_database, cache, now, calls, input, config, mitre_memo, host, op>>

None == "None"

\* host: whether ~/.threatintel_gpt/mitre_attack.json exists, how many
\* requests.get calls were made, and whether a MITREMapper was constructed.
\* A host with the data file in place, without and with a mapper.
NoMapper == [data_file |-> TRUE, requests |-> 0, mapper |-> FALSE]
WithMapper == [data_file |-> TRUE, requests |-> 0, mapper |-> TRUE]

Min(a, b) == IF a <= b THEN a ELSE b

Max(a, b) == IF a >= b THEN a ELSE b

(***************************************************************************)
(* Python primitives on str and list.                                      *)
(***************************************************************************)

\* s.split("."): never empty; "" gives [""], "a." gives ["a", ""].
Split(s) ==
    LET RECURSIVE go(_, _, _)
        go(i, cur, acc) ==
            IF i > Len(s) THEN Append(acc, cur)
            ELSE IF s[i] = "." THEN go(i + 1, <<>>, Append(acc, cur))
            ELSE go(i + 1, Append(cur, s[i]), acc)
    IN go(1, <<>>, <<>>)

\* xs[:n] for any integer n: a negative n counts from the end.
PySlice(xs, n) ==
    IF n >= 0 THEN SubSeq(xs, 1, Min(n, Len(xs)))
    ELSE SubSeq(xs, 1, Max(Len(xs) + n, 0))

\* xs[-1] of a non-empty list.
Last(xs) == xs[Len(xs)]

RECURSIVE SumSeq(_)
SumSeq(xs) == IF xs = <<>> THEN 0 ELSE Head(xs) + SumSeq(Tail(xs))

(***************************************************************************)
(* correlator.py: the similarity heuristics.                               *)
(***************************************************************************)

SimSameSubnet24 == 8
SimSameSubnet16 == 6
SimSameTld == 6
SimHashEqual == 10
SimHashDiffer == 0
SimDefault == 3
SimThreshold == 5
SimCrossType == 7

HashTypes == {"hash_md5", "hash_sha1", "hash_sha256"}

\* A plausible slip: the hash branch falls through to the default.
CalculateSimilarityHashFallthrough(ioc1, ioc2, ioc_type) ==
    IF ioc_type = "ip" THEN
        LET parts1 == Split(ioc1)
            parts2 == Split(ioc2)
        IN  IF PySlice(parts1, 3) = PySlice(parts2, 3) THEN SimSameSubnet24
            ELSE IF PySlice(parts1, 2) = PySlice(parts2, 2) THEN SimSameSubnet16
            ELSE SimDefault
    ELSE IF ioc_type = "domain" THEN
        IF Last(Split(ioc1)) = Last(Split(ioc2)) THEN SimSameTld ELSE SimDefault
    ELSE IF ioc_type \in HashTypes THEN
        IF ioc1 = ioc2 THEN SimHashEqual ELSE SimDefault
    ELSE SimDefault

\* A plausible slip: the parts of ioc1 are matched as a prefix of ioc2's.
CalculateSimilarityPrefix(ioc1, ioc2, ioc_type) ==
    IF ioc_type = "ip" THEN
        LET parts1 == Split(ioc1)
            parts2 == Split(ioc2)
        IN  IF PySlice(parts1, 3) = PySlice(parts2, Min(3, Len(parts1)))
            THEN SimSameSubnet24
            ELSE IF PySlice(parts1, 2) = PySlice(parts2, Min(2, Len(parts1)))
            THEN SimSameSubnet16
            ELSE SimDefault
    ELSE IF ioc_type = "domain" THEN
        IF Last(Split(ioc1)) = Last(Split(ioc2)) THEN SimSameTld ELSE SimDefault
    ELSE IF ioc_type \in HashTypes THEN
        IF ioc1 = ioc2 THEN SimHashEqual ELSE SimHashDiffer
    ELSE SimDefault

\* _calculate_similarity.  Slicing a list never raises, so the try block
\* never reaches its except clause for str arguments.
CalculateSimilarity(ioc1, ioc2, ioc_type) ==
    IF ioc_type = "ip" THEN
        LET parts1 == Split(ioc1)
            parts2 == Split(ioc2)
        IN  IF PySlice(parts1, 3) = PySlice(parts2, 3) THEN SimSameSubnet24
            ELSE IF PySlice(parts1, 2) = PySlice(parts2, 2) THEN SimSameSubnet16
            ELSE SimDefault
    ELSE IF ioc_type = "domain" THEN
        IF Last(Split(ioc1)) = Last(Split(ioc2)) THEN SimSameTld ELSE SimDefault
    ELSE IF ioc_type \in HashTypes THEN
        IF ioc1 = ioc2 THEN SimHashEqual ELSE SimHashDiffer
    ELSE SimDefault

(***************************************************************************)
(* correlator.py: the store.  threat_database is a defaultdict(list); a    *)
(* dict keeps its keys in the order of first insertion, so it is modelled  *)
(* as a sequence of [key, threats] entries.                                *)
(***************************************************************************)

DbKeys(db) == [i \in 1..Len(db) |-> db[i].key]

DbHas(db, k) == \E i \in 1..Len(db) : db[i].key = k

\* threat_database.get(k, []): reads, and creates no key.
DbGet(db, k) ==
    IF DbHas(db, k)
    THEN db[CHOOSE i \in 1..Len(db) : db[i].key = k].threats
    ELSE <<>>

\* A plausible slip: an identical (ioc, type) already stored is not stored again.
AppendThreatDedup(db, ioc, ioc_type, metadata, ts) ==
    LET threat_entry == [ioc |-> ioc, type |-> ioc_type,
                         metadata |-> metadata, timestamp |-> ts]
    IN  IF \E i \in 1..Len(DbGet(db, ioc_type)) : DbGet(db, ioc_type)[i].ioc = ioc
        THEN db
        ELSE IF DbHas(db, ioc_type)
        THEN [i \in 1..Len(db) |->
                 IF db[i].key = ioc_type
                 THEN [db[i] EXCEPT !.threats = Append(@, threat_entry)]
                 ELSE db[i]]
        ELSE Append(db, [key |-> ioc_type, threats |-> <<threat_entry>>])

\* A plausible slip: the new record goes to the front of its list.
AppendThreatFront(db, ioc, ioc_type, metadata, ts) ==
    LET threat_entry == [ioc |-> ioc, type |-> ioc_type,
                         metadata |-> metadata, timestamp |-> ts]
    IN  IF DbHas(db, ioc_type)
        THEN [i \in 1..Len(db) |->
                 IF db[i].key = ioc_type
                 THEN [db[i] EXCEPT !.threats = <<threat_entry>> \o @]
                 ELSE db[i]]
        ELSE Append(db, [key |-> ioc_type, threats |-> <<threat_entry>>])

\* threat_database[ioc_type].append(threat_entry): the defaultdict creates
\* the key at the end of the dict when it is missing.
AppendThreat(db, ioc, ioc_type, metadata, ts) ==
    LET threat_entry == [ioc |-> ioc, type |-> ioc_type,
                         metadata |-> metadata, timestamp |-> ts]
    IN  IF DbHas(db, ioc_type)
        THEN [i \in 1..Len(db) |->
                 IF db[i].key = ioc_type
                 THEN [db[i] EXCEPT !.threats = Append(@, threat_entry)]
                 ELSE db[i]]
        ELSE Append(db, [key |-> ioc_type, threats |-> <<threat_entry>>])

\* A plausible slip: the loop does not skip the records with the queried value.
SameTypeScanNoSkip(db, ioc, ioc_type) ==
    LET threats == DbGet(db, ioc_type)
        RECURSIVE scan(_, _)
        scan(i, related) ==
            IF i > Len(threats) THEN related
            ELSE IF CalculateSimilarity(ioc, threats[i].ioc, ioc_type) > SimThreshold
                 THEN scan(i + 1, Append(related,
                          [ioc |-> threats[i].ioc,
                           type |-> threats[i].type,
                           similarity |-> CalculateSimilarity(ioc, threats[i].ioc, ioc_type),
                           relationship |-> "same_type",
                           metadata |-> threats[i].metadata]))
                 ELSE scan(i + 1, related)
    IN scan(1, <<>>)

\* The same-type loop of find_related.
SameTypeScan(db, ioc, ioc_type) ==
    LET threats == DbGet(db, ioc_type)
        RECURSIVE scan(_, _)
        scan(i, related) ==
            IF i > Len(threats) THEN related
            ELSE IF threats[i].ioc # ioc
                    /\ CalculateSimilarity(ioc, threats[i].ioc, ioc_type) > SimThreshold
                 THEN scan(i + 1, Append(related,
                          [ioc |-> threats[i].ioc,
                           type |-> threats[i].type,
                           similarity |-> CalculateSimilarity(ioc, threats[i].ioc, ioc_type),
                           relationship |-> "same_type",
                           metadata |-> threats[i].metadata]))
                 ELSE scan(i + 1, related)
    IN scan(1, <<>>)

\* A plausible slip: the cross-type scan runs for a query of any type.
FindCrossTypeCorrelationsAnyType(db, ioc, ioc_type) ==
    LET domains == DbGet(db, "domain")
    IN  [i \in 1..Len(domains) |->
            [ioc |-> domains[i].ioc,
             type |-> "domain",
             similarity |-> SimCrossType,
             relationship |-> "dns_resolution",
             metadata |-> domains[i].metadata]]

\* _find_cross_type_correlations.
FindCrossTypeCorrelations(db, ioc, ioc_type) ==
    IF ioc_type = "ip"
    THEN LET domains == DbGet(db, "domain")
         IN  [i \in 1..Len(domains) |->
                 [ioc |-> domains[i].ioc,
                  type |-> "domain",
                  similarity |-> SimCrossType,
                  relationship |-> "dns_resolution",
                  metadata |-> domains[i].metadata]]
    ELSE <<>>

\* A plausible slip: an unstable sort, equal keys come out in reverse.
RECURSIVE InsertDescUnstable(_, _)
InsertDescUnstable(sorted, x) ==
    IF sorted = <<>> THEN <<x>>
    ELSE IF Head(sorted).similarity > x.similarity
         THEN <<Head(sorted)>> \o InsertDescUnstable(Tail(sorted), x)
         ELSE <<x>> \o sorted

\* One step of list.sort(key=similarity, reverse=True): Python's sort is
\* stable also under reverse=True, so x goes after every entry whose key is
\* greater than or equal to its own.
RECURSIVE InsertDesc(_, _)
InsertDesc(sorted, x) ==
    IF sorted = <<>> THEN <<x>>
    ELSE IF Head(sorted).similarity >= x.similarity
         THEN <<Head(sorted)>> \o InsertDesc(Tail(sorted), x)
         ELSE <<x>> \o sorted

SortBySimilarityDesc(xs) ==
    LET RECURSIVE go(_, _)
        go(i, acc) == IF i > Len(xs) THEN acc ELSE go(i + 1, InsertDesc(acc, xs[i]))
    IN go(1, <<>>)

\* The list find_related sorts: the same-type entries, then the cross-type ones.
Candidates(db, ioc, ioc_type) ==
    SameTypeScan(db, ioc, ioc_type) \o FindCrossTypeCorrelations(db, ioc, ioc_type)

\* find_related.
FindRelated(db, ioc, ioc_type, max_results) ==
    PySlice(SortBySimilarityDesc(Candidates(db, ioc, ioc_type)), max_results)

\* cluster_threats shows at most this many records of a cluster.
ClusterDisplayLimit == 10

\* cluster_threats(time_window) at the time current: the loops over the dict's
\* items and over each list collect the recent records; one cluster if any.
ClusterThreats(db, current, time_window) ==
    LET RECURSIVE typeLoop(_, _)
        typeLoop(k, recent_threats) ==
            IF k > Len(db) THEN recent_threats
            ELSE typeLoop(k + 1,
                     recent_threats \o
                         SelectSeq(db[k].threats,
                                   LAMBDA threat : current - threat.timestamp <= time_window))
        recent == typeLoop(1, <<>>)
    IN  IF recent # <<>>
        THEN <<[cluster_id |-> 1,
                threat_count |-> Len(recent),
                time_window |-> time_window,
                threats |-> PySlice(recent, ClusterDisplayLimit)]>>
        ELSE <<>>

\* correlation_rules: the three rules _initialize_rules enables.
CorrelationRules ==
    [ip_to_domain |-> [enabled |-> TRUE, confidence |-> 8],
     hash_to_campaign |-> [enabled |-> TRUE, confidence |-> 9],
     temporal_clustering |-> [enabled |-> TRUE, confidence |-> 7]]

\* get_statistics: by_type is a dict in the key order of threat_database.
GetStatistics(db) ==
    [total_threats |-> SumSeq([i \in 1..Len(db) |-> Len(db[i].threats)]),
     by_type |-> [i \in 1..Len(db) |-> [key |-> db[i].key, count |-> Len(db[i].threats)]],
     correlation_rules_active |->
         Cardinality({r \in DOMAIN CorrelationRules : CorrelationRules[r].enabled})]

(***************************************************************************)
(* Inputs.                                                                 *)
(***************************************************************************)

Ip1111 == <<"1", ".", "1", ".", "1", ".", "1">>
Ip1112 == <<"1", ".", "1", ".", "1", ".", "2">>
Ip1119 == <<"1", ".", "1", ".", "1", ".", "9">>
Ip1121 == <<"1", ".", "1", ".", "2", ".", "1">>
Ip1211 == <<"1", ".", "2", ".", "1", ".", "1">>
Ip11 == <<"1", ".", "1">>
Ip1 == <<"1">>
Empty == <<>>
DomACom == <<"a", ".", "c", "o", "m">>
DomBCom == <<"b", ".", "c", "o", "m">>
DomBOrg == <<"b", ".", "o", "r", "g">>

\* The IOC values add_threat is called with, and those queried.
StoredValues == {Ip1111, Ip1112, Ip1121}
QueryValues == {Ip1111, Ip1119}

\* The ioc_type strings used: add_threat and find_related take any string.
Types == {"ip", "domain", "hash_md5"}

Metadata == {"m1"}

DefaultMaxResults == 10
MaxResultsValues == {-1, 0, 2, DefaultMaxResults}

\* The store holds at most MaxRecords records in a run.
MaxRecords == 3

TotalThreats(db) == SumSeq([i \in 1..Len(db) |-> Len(db[i].threats)])

(***************************************************************************)
(* The state after construction, and the correlator's operations.          *)
(***************************************************************************)

Init ==
    /\ threat_database = <<>>
    /\ cache = {}
    /\ now = 0
    /\ calls = [t \in Types |-> 0]
    /\ input = None
    /\ config = None
    /\ mitre_memo = <<>>
    /\ host = NoMapper
    /\ op = [name |-> "init"]

\* ThreatCorrelator.add_threat(ioc, ioc_type, metadata)
AddThreatStep(ioc, ioc_type, metadata) ==
    /\ threat_database' = AppendThreat(threat_database, ioc, ioc_type, metadata, now)
    /\ calls' = [calls EXCEPT ![ioc_type] = @ + 1]
    /\ op' = [name |-> "add_threat", ioc |-> ioc, ioc_type |-> ioc_type,
              metadata |-> metadata]
    /\ UNCHANGED <<cache, now, input, config, mitre_memo, host>>

AddThreat ==
    \E ioc \in StoredValues, ioc_type \in Types, metadata \in Metadata :
        /\ TotalThreats(threat_database) < MaxRecords
        /\ AddThreatStep(ioc, ioc_type, metadata)

\* ThreatCorrelator.find_related(ioc, ioc_type, max_results)
FindRelatedCall ==
    \E ioc \in QueryValues, ioc_type \in Types, max_results \in MaxResultsValues :
        /\ op' = [name |-> "find_related", ioc |-> ioc, ioc_type |-> ioc_type,
                  max_results |-> max_results,
                  result |-> FindRelated(threat_database, ioc, ioc_type, max_results)]
        /\ UNCHANGED <<threat_database, cache, now, calls, input, config, mitre_memo, host>>

\* ThreatCorrelator.get_statistics()
GetStatisticsCall ==
    /\ op' = [name |-> "get_statistics", result |-> GetStatistics(threat_database)]
    /\ UNCHANGED <<threat_database, cache, now, calls, input, config, mitre_memo, host>>

NextCorrelator == AddThreat \/ FindRelatedCall \/ GetStatisticsCall

SpecCorrelator == Init /\ [][NextCorrelator]_vars

(***************************************************************************)
(* Claims about the correlator.                                            *)
(***************************************************************************)

\* C1: no entry find_related returns has its ioc equal to the queried ioc,
\* the cross-type domain entries of an ip query included.
C1_NoSelfInResults ==
    op.name = "find_related" =>
        \A i \in 1..Len(op.result) : op.result[i].ioc # op.ioc

\* The entries of xs by similarity level, highest first, each level in the
\* order of xs.
RECURSIVE ByLevel(_, _)
ByLevel(xs, level) ==
    IF level < 0 THEN <<>>
    ELSE SelectSeq(xs, LAMBDA x : x.similarity = level) \o ByLevel(xs, level - 1)

\* C3: find_related returns its entries by non-increasing similarity, and
\* entries of equal similarity keep the scan order: same-type before
\* cross-type, and within each group the insertion order of their records.
C3_SortedStable ==
    op.name = "find_related" =>
        /\ \A i, j \in 1..Len(op.result) :
              i < j => /\ op.result[i].similarity >= op.result[j].similarity
                       /\ (op.result[i].similarity = op.result[j].similarity
                             => ~(/\ op.result[i].relationship = "dns_resolution"
                                  /\ op.result[j].relationship = "same_type"))
        /\ op.result =
              PySlice(ByLevel(Candidates(threat_database, op.ioc, op.ioc_type),
                              SimHashEqual),
                      op.max_results)

\* C3's case: the sort moved an entry, and two different records tie.
C3_Witness ==
    /\ op.name = "find_related"
    /\ Len(op.result) >= 3
    /\ op.result # PySlice(Candidates(threat_database, op.ioc, op.ioc_type),
                           op.max_results)
    /\ \E i \in 1..(Len(op.result) - 1) :
          /\ op.result[i].similarity = op.result[i + 1].similarity
          /\ op.result[i].ioc # op.result[i + 1].ioc

\* The count get_statistics reports for type t: 0 when by_type has no such key.
CountByType(stats, t) ==
    SumSeq([i \in 1..Len(stats.by_type) |->
               IF stats.by_type[i].key = t THEN stats.by_type[i].count ELSE 0])

\* C4: add_threat never deduplicates: total_threats is the number of
\* add_threat calls made, by_type[t] the number made with type t, and
\* total_threats the sum of by_type.
C4_NoDedup ==
    op.name = "get_statistics" =>
        /\ op.result.total_threats = SumSeq([i \in 1..Len(threat_database) |->
                                                calls[threat_database[i].key]])
        /\ \A t \in Types : CountByType(op.result, t) = calls[t]
        /\ \A i \in 1..Len(op.result.by_type) : op.result.by_type[i].key \in Types
        /\ op.result.total_threats =
              SumSeq([i \in 1..Len(op.result.by_type) |-> op.result.by_type[i].count])

\* C4's case: statistics taken with the same (ioc, type, metadata) stored twice.
C4_Witness ==
    /\ op.name = "get_statistics"
    /\ op.result.total_threats >= 2
    /\ \E k \in 1..Len(threat_database) :
          \E i, j \in 1..Len(threat_database[k].threats) :
              /\ i < j
              /\ threat_database[k].threats[i].ioc = threat_database[k].threats[j].ioc
              /\ threat_database[k].threats[i].metadata
                    = threat_database[k].threats[j].metadata

(***************************************************************************)
(* The similarity heuristics on their own: the arguments are drawn in the  *)
(* initial state and _calculate_similarity is applied to them.             *)
(***************************************************************************)

\* IOC strings, well-formed and not: "1.1" and "1" have fewer than three
\* dot-separated parts, "" is the empty string.
SimValues == {Ip1111, Ip1112, Ip1121, Ip1211, Ip11, Ip1, Empty,
              DomACom, DomBCom, DomBOrg}

SimTypes == {"ip", "domain", "hash_md5", "hash_sha1", "hash_sha256", "url"}

\* What the other variables hold when only a pure function is exercised.
Idle ==
    /\ threat_database = <<>>
    /\ cache = {}
    /\ now = 0
    /\ calls = [t \in Types |-> 0]
    /\ config = None
    /\ mitre_memo = <<>>
    /\ op = [name |-> "init"]

InitSimilarity ==
    /\ Idle
    /\ host = NoMapper
    /\ input \in [ioc1 : SimValues, ioc2 : SimValues, ioc_type : SimTypes]

\* ThreatCorrelator._calculate_similarity(ioc1, ioc2, ioc_type)
CalculateSimilarityCall ==
    /\ op' = [name |-> "calculate_similarity",
              ioc1 |-> input.ioc1, ioc2 |-> input.ioc2, ioc_type |-> input.ioc_type,
              result |-> CalculateSimilarity(input.ioc1, input.ioc2, input.ioc_type)]
    /\ UNCHANGED <<threat_database, cache, now, calls, input, config, mitre_memo, host>>

NextSimilarity == CalculateSimilarityCall

SpecSimilarity == InitSimilarity /\ [][NextSimilarity]_vars

Digits == {"0", "1", "2", "3", "4", "5", "6", "7", "8", "9"}

\* The dot-separated parts of s, read off the positions of its dots.
DotPositions(s) == {i \in 1..Len(s) : s[i] = "."}

NthPart(s, n) ==
    LET bounds == {0, Len(s) + 1} \cup DotPositions(s)
        lo == CHOOSE x \in bounds : Cardinality({y \in bounds : y < x}) = n - 1
        hi == CHOOSE x \in bounds : Cardinality({y \in bounds : y < x}) = n
    IN SubSeq(s, lo + 1, hi - 1)

NumParts(s) == Cardinality(DotPositions(s)) + 1

\* A well-formed IPv4 string: four non-empty parts, all digits.
WellFormedIp(s) ==
    /\ NumParts(s) = 4
    /\ \A n \in 1..4 : /\ NthPart(s, n) # <<>>
                       /\ \A k \in 1..Len(NthPart(s, n)) : NthPart(s, n)[k] \in Digits

\* C7: on well-formed arguments the similarity is the table's: for ip, 0.8
\* when the first three octets agree, else 0.6 when the first two agree, else
\* 0.3; for domain, 0.6 when the last label agrees, else 0.3; for the hash
\* types, 1.0 on equal strings and 0.0 otherwise; 0.3 for any other type.
C7_SimilarityTable ==
    op.name = "calculate_similarity" =>
        LET a == op.ioc1
            b == op.ioc2
        IN  /\ (op.ioc_type = "ip" /\ WellFormedIp(a) /\ WellFormedIp(b)) =>
                  op.result =
                     IF \A n \in 1..3 : NthPart(a, n) = NthPart(b, n) THEN 8
                     ELSE IF \A n \in 1..2 : NthPart(a, n) = NthPart(b, n) THEN 6
                     ELSE 3
            /\ op.ioc_type = "domain" =>
                  op.result =
                     IF NthPart(a, NumParts(a)) = NthPart(b, NumParts(b)) THEN 6 ELSE 3
            /\ op.ioc_type \in {"hash_md5", "hash_sha1", "hash_sha256"} =>
                  op.result = IF a = b THEN 10 ELSE 0
            /\ op.ioc_type \notin {"ip", "domain", "hash_md5", "hash_sha1", "hash_sha256"} =>
                  op.result = 3
            /\ (op.ioc_type = "ip" => WellFormedIp(a) /\ WellFormedIp(b)) =>
                  op.result \in {0, 3, 6, 8, 10}

\* C7's case: two well-formed addresses of one /16 and different /24s.
C7_Witness ==
    /\ op.name = "calculate_similarity"
    /\ op.ioc_type = "ip"
    /\ WellFormedIp(op.ioc1) /\ WellFormedIp(op.ioc2)
    /\ op.result = 6

\* C8: for type ip, when either argument is malformed (fewer than three
\* dot-separated parts in particular) the similarity is the default 0.3,
\* never 0.8 or 0.6.
C8_MalformedIpDefault ==
    (/\ op.name = "calculate_similarity"
     /\ op.ioc_type = "ip"
     /\ (NumParts(op.ioc1) < 3 \/ NumParts(op.ioc2) < 3))
    => op.result = 3

(***************************************************************************)
(* analyzer.py: the score and the severity.  Confidences and scores are in *)
(* hundredths: the product of a whole base (50..80) and a confidence in    *)
(* hundredths is the score in hundredths, exactly.                         *)
(***************************************************************************)

BaseScore == 50
PerTechnique == 5
TechniqueCap == 30
ScoreCap == 10000
DefaultConfidence == 50

\* d.get(key, default) on a record used as a dict.
DictGet(d, key, default) == IF key \in DOMAIN d THEN d[key] ELSE default

\* A plausible slip: the technique bonus is not capped.
CalculateThreatScoreUncapped(parsed_data, mitre_mapping) ==
    LET technique_count == Len(DictGet(mitre_mapping, "techniques", <<>>))
        base_score == BaseScore + technique_count * PerTechnique
        confidence == DictGet(parsed_data, "confidence", DefaultConfidence)
    IN Min(base_score * confidence, ScoreCap)

\* _calculate_threat_score(parsed_data, mitre_mapping)
CalculateThreatScore(parsed_data, mitre_mapping) ==
    LET technique_count == Len(DictGet(mitre_mapping, "techniques", <<>>))
        base_score == BaseScore + Min(technique_count * PerTechnique, TechniqueCap)
        confidence == DictGet(parsed_data, "confidence", DefaultConfidence)
    IN Min(base_score * confidence, ScoreCap)

Critical == 8000
High == 6000
Medium == 4000
Low == 2000

\* A plausible slip: the CRITICAL bound is exclusive.
GetSeverityExclusive(threat_score) ==
    IF threat_score > Critical THEN "CRITICAL"
    ELSE IF threat_score >= High THEN "HIGH"
    ELSE IF threat_score >= Medium THEN "MEDIUM"
    ELSE IF threat_score >= Low THEN "LOW"
    ELSE "INFO"

\* _get_severity(threat_score)
GetSeverity(threat_score) ==
    IF threat_score >= Critical THEN "CRITICAL"
    ELSE IF threat_score >= High THEN "HIGH"
    ELSE IF threat_score >= Medium THEN "MEDIUM"
    ELSE IF threat_score >= Low THEN "LOW"
    ELSE "INFO"

\* The largest number of matched techniques drawn.
MaxTechniqueCount == 9

\* Every confidence in [0, 1] in steps of 0.01, and every score in [0, 100]
\* in steps of 0.01.
Confidences == 0..100
Scores == 0..ScoreCap

InitScore ==
    /\ Idle
    /\ host = NoMapper
    /\ input \in [kind : {"score"}, technique_count : 0..MaxTechniqueCount,
                  confidence : Confidences]
             \cup [kind : {"severity"}, threat_score : Scores]

\* ThreatAnalyzer._calculate_threat_score on a mapping of technique_count
\* techniques and a parsed response of the given confidence.
CalculateThreatScoreCall ==
    /\ input.kind = "score"
    /\ op' = [name |-> "calculate_threat_score",
              technique_count |-> input.technique_count,
              confidence |-> input.confidence,
              result |-> CalculateThreatScore(
                             [confidence |-> input.confidence],
                             [techniques |-> [i \in 1..input.technique_count |-> i]])]
    /\ UNCHANGED <<threat_database, cache, now, calls, input, config, mitre_memo, host>>

\* ThreatAnalyzer._get_severity(threat_score)
GetSeverityCall ==
    /\ input.kind = "severity"
    /\ op' = [name |-> "get_severity", threat_score |-> input.threat_score,
              result |-> GetSeverity(input.threat_score)]
    /\ UNCHANGED <<threat_database, cache, now, calls, input, config, mitre_memo, host>>

NextScore == CalculateThreatScoreCall \/ GetSeverityCall

SpecScore == InitScore /\ [][NextScore]_vars

\* The score of n techniques at confidence c, as the code computes it.
ScoreOf(n, c) ==
    CalculateThreatScore([confidence |-> c], [techniques |-> [i \in 1..n |-> i]])

\* C5: score(n, c) is min((50 + min(5n, 30)) * c, 100) and lies in [0, 100];
\* c = 0 gives 0, the score does not decrease as n grows, and it is the same
\* for every n >= 6.
C5_ScoreFormula ==
    op.name = "calculate_threat_score" =>
        LET n == op.technique_count
            c == op.confidence
        IN  /\ op.result = (IF n >= 6 THEN 80 * c ELSE (50 + 5 * n) * c)
            /\ op.result >= 0 /\ op.result <= 10000
            /\ (c = 0 => op.result = 0)
            /\ \A m \in 0..n : ScoreOf(m, c) <= op.result
            /\ (n >= 6 => op.result = ScoreOf(6, c))

\* C5's case: more than six techniques, where the cap on the bonus decides.
C5_Witness ==
    /\ op.name = "calculate_threat_score"
    /\ op.technique_count > 6
    /\ op.confidence = 70
    /\ op.result = 5600

\* C6: every score in [0, 100] gets exactly one tier, with inclusive lower
\* bounds: CRITICAL from 80, HIGH from 60, MEDIUM from 40, LOW from 20, INFO
\* below 20.
C6_SeverityTiers ==
    op.name = "get_severity" =>
        LET x == op.threat_score
        IN  /\ op.result \in {"CRITICAL", "HIGH", "MEDIUM", "LOW", "INFO"}
            /\ (op.result = "CRITICAL" <=> x >= 8000)
            /\ (op.result = "HIGH" <=> (6000 <= x /\ x < 8000))
            /\ (op.result = "MEDIUM" <=> (4000 <= x /\ x < 6000))
            /\ (op.result = "LOW" <=> (2000 <= x /\ x < 4000))
            /\ (op.result = "INFO" <=> x < 2000)

\* C6's case: the boundary score 80.0 is CRITICAL.
C6_Witness ==
    /\ op.name = "get_severity"
    /\ op.threat_score = 8000
    /\ op.result = "CRITICAL"

(***************************************************************************)
(* mitre.py: the technique catalog and the keyword matcher.  Keywords and  *)
(* descriptions are character sequences; technique ids, tactics and names  *)
(* are only ever copied and compared whole, and stay strings.              *)
(***************************************************************************)

\* TECHNIQUE_KEYWORDS, in the order of the dict literal.
TECHNIQUE_KEYWORDS == <<
    [id |-> "T1566", keywords |-> <<  \* phishing, spearphishing, email attack
         <<"p", "h", "i", "s", "h", "i", "n", "g">>,
         <<"s", "p", "e", "a", "r", "p", "h", "i", "s", "h", "i", "n", "g">>,
         <<"e", "m", "a", "i", "l", " ", "a", "t", "t", "a", "c", "k">>>>],
    [id |-> "T1059", keywords |-> <<  \* command, script, powershell, cmd, bash
         <<"c", "o", "m", "m", "a", "n", "d">>,
         <<"s", "c", "r", "i", "p", "t">>,
         <<"p", "o", "w", "e", "r", "s", "h", "e", "l", "l">>,
         <<"c", "m", "d">>,
         <<"b", "a", "s", "h">>>>],
    [id |-> "T1105", keywords |-> <<  \* download, ingress tool transfer, file transfer
         <<"d", "o", "w", "n", "l", "o", "a", "d">>,
         <<"i", "n", "g", "r", "e", "s", "s", " ", "t", "o", "o", "l", " ", "t", "r", "a", "n", "s", "f", "e", "r">>,
         <<"f", "i", "l", "e", " ", "t", "r", "a", "n", "s", "f", "e", "r">>>>],
    [id |-> "T1071", keywords |-> <<  \* http, https, web protocol, application layer
         <<"h", "t", "t", "p">>,
         <<"h", "t", "t", "p", "s">>,
         <<"w", "e", "b", " ", "p", "r", "o", "t", "o", "c", "o", "l">>,
         <<"a", "p", "p", "l", "i", "c", "a", "t", "i", "o", "n", " ", "l", "a", "y", "e", "r">>>>],
    [id |-> "T1090", keywords |-> <<  \* proxy, vpn, tunnel
         <<"p", "r", "o", "x", "y">>,
         <<"v", "p", "n">>,
         <<"t", "u", "n", "n", "e", "l">>>>],
    [id |-> "T1189", keywords |-> <<  \* drive-by, watering hole, compromised website
         <<"d", "r", "i", "v", "e", "-", "b", "y">>,
         <<"w", "a", "t", "e", "r", "i", "n", "g", " ", "h", "o", "l", "e">>,
         <<"c", "o", "m", "p", "r", "o", "m", "i", "s", "e", "d", " ", "w", "e", "b", "s", "i", "t", "e">>>>],
    [id |-> "T1190", keywords |-> <<  \* exploit, vulnerability, cve
         <<"e", "x", "p", "l", "o", "i", "t">>,
         <<"v", "u", "l", "n", "e", "r", "a", "b", "i", "l", "i", "t", "y">>,
         <<"c", "v", "e">>>>],
    [id |-> "T1133", keywords |-> <<  \* vpn, remote access, external remote services
         <<"v", "p", "n">>,
         <<"r", "e", "m", "o", "t", "e", " ", "a", "c", "c", "e", "s", "s">>,
         <<"e", "x", "t", "e", "r", "n", "a", "l", " ", "r", "e", "m", "o", "t", "e", " ", "s", "e", "r", "v", "i", "c", "e", "s">>>>],
    [id |-> "T1078", keywords |-> <<  \* valid account, credential, stolen credentials
         <<"v", "a", "l", "i", "d", " ", "a", "c", "c", "o", "u", "n", "t">>,
         <<"c", "r", "e", "d", "e", "n", "t", "i", "a", "l">>,
         <<"s", "t", "o", "l", "e", "n", " ", "c", "r", "e", "d", "e", "n", "t", "i", "a", "l", "s">>>>],
    [id |-> "T1110", keywords |-> <<  \* brute force, password spray, credential stuffing
         <<"b", "r", "u", "t", "e", " ", "f", "o", "r", "c", "e">>,
         <<"p", "a", "s", "s", "w", "o", "r", "d", " ", "s", "p", "r", "a", "y">>,
         <<"c", "r", "e", "d", "e", "n", "t", "i", "a", "l", " ", "s", "t", "u", "f", "f", "i", "n", "g">>>>],
    [id |-> "T1486", keywords |-> <<  \* ransomware, encryption, data encrypted
         <<"r", "a", "n", "s", "o", "m", "w", "a", "r", "e">>,
         <<"e", "n", "c", "r", "y", "p", "t", "i", "o", "n">>,
         <<"d", "a", "t", "a", " ", "e", "n", "c", "r", "y", "p", "t", "e", "d">>>>],
    [id |-> "T1485", keywords |-> <<  \* data destruction, delete, wipe
         <<"d", "a", "t", "a", " ", "d", "e", "s", "t", "r", "u", "c", "t", "i", "o", "n">>,
         <<"d", "e", "l", "e", "t", "e">>,
         <<"w", "i", "p", "e">>>>],
    [id |-> "T1567", keywords |-> <<  \* exfiltration, data theft, upload
         <<"e", "x", "f", "i", "l", "t", "r", "a", "t", "i", "o", "n">>,
         <<"d", "a", "t", "a", " ", "t", "h", "e", "f", "t">>,
         <<"u", "p", "l", "o", "a", "d">>>>],
    [id |-> "T1021", keywords |-> <<  \* rdp, remote desktop, remote services
         <<"r", "d", "p">>,
         <<"r", "e", "m", "o", "t", "e", " ", "d", "e", "s", "k", "t", "o", "p">>,
         <<"r", "e", "m", "o", "t", "e", " ", "s", "e", "r", "v", "i", "c", "e", "s">>>>],
    [id |-> "T1003", keywords |-> <<  \* credential dump, lsass, mimikatz
         <<"c", "r", "e", "d", "e", "n", "t", "i", "a", "l", " ", "d", "u", "m", "p">>,
         <<"l", "s", "a", "s", "s">>,
         <<"m", "i", "m", "i", "k", "a", "t", "z">>>>]>>

\* TACTIC_MAPPING
TACTIC_MAPPING ==
    ("T1566" :> "Initial Access")
    @@ ("T1059" :> "Execution")
    @@ ("T1105" :> "Command and Control")
    @@ ("T1071" :> "Command and Control")
    @@ ("T1090" :> "Command and Control")
    @@ ("T1189" :> "Initial Access")
    @@ ("T1190" :> "Initial Access")
    @@ ("T1133" :> "Persistence")
    @@ ("T1078" :> "Defense Evasion")
    @@ ("T1110" :> "Credential Access")
    @@ ("T1486" :> "Impact")
    @@ ("T1485" :> "Impact")
    @@ ("T1567" :> "Exfiltration")
    @@ ("T1021" :> "Lateral Movement")
    @@ ("T1003" :> "Credential Access")

\* technique_names of _get_technique_name
TechniqueNames ==
    ("T1566" :> "Phishing")
    @@ ("T1059" :> "Command and Scripting Interpreter")
    @@ ("T1105" :> "Ingress Tool Transfer")
    @@ ("T1071" :> "Application Layer Protocol")
    @@ ("T1090" :> "Proxy")
    @@ ("T1189" :> "Drive-by Compromise")
    @@ ("T1190" :> "Exploit Public-Facing Application")
    @@ ("T1133" :> "External Remote Services")
    @@ ("T1078" :> "Valid Accounts")
    @@ ("T1110" :> "Brute Force")
    @@ ("T1486" :> "Data Encrypted for Impact")
    @@ ("T1485" :> "Data Destruction")
    @@ ("T1567" :> "Exfiltration Over Web Service")
    @@ ("T1021" :> "Remote Services")
    @@ ("T1003" :> "OS Credential Dumping")

UpperCase == <<"A", "B", "C", "D", "E", "F", "G", "H", "I", "J", "K", "L", "M",
               "N", "O", "P", "Q", "R", "S", "T", "U", "V", "W", "X", "Y", "Z">>
LowerCase == <<"a", "b", "c", "d", "e", "f", "g", "h", "i", "j", "k", "l", "m",
               "n", "o", "p", "q", "r", "s", "t", "u", "v", "w", "x", "y", "z">>

\* str.lower() on ASCII text.
LowerOf == [i \in 1..26 |-> LowerCase[i]]

UpperIndex(c) == CHOOSE i \in 1..26 : UpperCase[i] = c

UpperSet == {UpperCase[i] : i \in 1..26}

LowerChar(c) == IF c \in UpperSet THEN LowerOf[UpperIndex(c)] ELSE c

Lower(text) ==
    SubSeq([i \in 1..Len(text) |-> LowerChar(text[i])], 1, Len(text))

\* keyword in text
IsSubstring(keyword, text) ==
    \E i \in 0..(Len(text) - Len(keyword)) :
        \A j \in 1..Len(keyword) : text[i + j] = keyword[j]

\* x in xs, for a list
InSeq(x, xs) == \E i \in 1..Len(xs) : xs[i] = x

\* _get_technique_name
GetTechniqueName(technique_id) ==
    IF technique_id \in DOMAIN TechniqueNames
    THEN TechniqueNames[technique_id]
    ELSE "Unknown Technique"

\* _get_technique_details
GetTechniqueDetails(technique_ids) ==
    [i \in 1..Len(technique_ids) |->
        [id |-> technique_ids[i],
         name |-> GetTechniqueName(technique_ids[i]),
         tactic |-> IF technique_ids[i] \in DOMAIN TACTIC_MAPPING
                    THEN TACTIC_MAPPING[technique_ids[i]] ELSE "Unknown",
         url |-> <<"https://attack.mitre.org/techniques/", technique_ids[i], "/">>]]

\* A plausible slip: the tactic is appended without the "not in" test.
MapToMitreNoTacticDedup(description) ==
    LET description_lower == Lower(description)
        RECURSIVE keywordLoop(_, _, _, _)
        keywordLoop(t, j, techniques, tactics) ==
            IF j > Len(TECHNIQUE_KEYWORDS[t].keywords) THEN <<techniques, tactics>>
            ELSE IF IsSubstring(TECHNIQUE_KEYWORDS[t].keywords[j], description_lower)
            THEN LET technique_id == TECHNIQUE_KEYWORDS[t].id
                     tactic == IF technique_id \in DOMAIN TACTIC_MAPPING
                               THEN TACTIC_MAPPING[technique_id] ELSE None
                 IN  IF ~InSeq(technique_id, techniques)
                     THEN <<Append(techniques, technique_id),
                            IF tactic # None THEN Append(tactics, tactic) ELSE tactics>>
                     ELSE <<techniques, tactics>>
            ELSE keywordLoop(t, j + 1, techniques, tactics)
        RECURSIVE techniqueLoop(_, _)
        techniqueLoop(t, matched) ==
            IF t > Len(TECHNIQUE_KEYWORDS) THEN matched
            ELSE techniqueLoop(t + 1, keywordLoop(t, 1, matched[1], matched[2]))
        matched == techniqueLoop(1, <<(<<>>), (<<>>)>>)
    IN  [techniques |-> matched[1],
         tactics |-> matched[2],
         details |-> GetTechniqueDetails(matched[1])]

\* map_to_mitre(description): the two nested loops; the break leaves the
\* keyword loop at the first keyword found in the lower-cased description.
MapToMitre(description) ==
    LET description_lower == Lower(description)
        RECURSIVE keywordLoop(_, _, _, _)
        keywordLoop(t, j, techniques, tactics) ==
            IF j > Len(TECHNIQUE_KEYWORDS[t].keywords) THEN <<techniques, tactics>>
            ELSE IF IsSubstring(TECHNIQUE_KEYWORDS[t].keywords[j], description_lower)
            THEN LET technique_id == TECHNIQUE_KEYWORDS[t].id
                     tactic == IF technique_id \in DOMAIN TACTIC_MAPPING
                               THEN TACTIC_MAPPING[technique_id] ELSE None
                 IN  IF ~InSeq(technique_id, techniques)
                     THEN <<Append(techniques, technique_id),
                            IF tactic # None /\ ~InSeq(tactic, tactics)
                            THEN Append(tactics, tactic) ELSE tactics>>
                     ELSE <<techniques, tactics>>
            ELSE keywordLoop(t, j + 1, techniques, tactics)
        RECURSIVE techniqueLoop(_, _)
        techniqueLoop(t, matched) ==
            IF t > Len(TECHNIQUE_KEYWORDS) THEN matched
            ELSE techniqueLoop(t + 1, keywordLoop(t, 1, matched[1], matched[2]))
        matched == techniqueLoop(1, <<(<<>>), (<<>>)>>)
    IN  [techniques |-> matched[1],
         tactics |-> matched[2],
         details |-> GetTechniqueDetails(matched[1])]

\* A plausible slip: only "keyword in query_lower" is tested.
SearchTechniquesOneWay(query) ==
    LET query_lower == Lower(query)
        hit(t) == \E j \in 1..Len(TECHNIQUE_KEYWORDS[t].keywords) :
                      IsSubstring(TECHNIQUE_KEYWORDS[t].keywords[j], query_lower)
        RECURSIVE techniqueLoop(_, _)
        techniqueLoop(t, results) ==
            IF t > Len(TECHNIQUE_KEYWORDS) THEN results
            ELSE IF hit(t)
            THEN techniqueLoop(t + 1, Append(results,
                     [id |-> TECHNIQUE_KEYWORDS[t].id,
                      name |-> GetTechniqueName(TECHNIQUE_KEYWORDS[t].id),
                      tactic |-> IF TECHNIQUE_KEYWORDS[t].id \in DOMAIN TACTIC_MAPPING
                                 THEN TACTIC_MAPPING[TECHNIQUE_KEYWORDS[t].id] ELSE None,
                      keywords |-> TECHNIQUE_KEYWORDS[t].keywords,
                      url |-> <<"https://attack.mitre.org/techniques/",
                                TECHNIQUE_KEYWORDS[t].id, "/">>]))
            ELSE techniqueLoop(t + 1, results)
    IN techniqueLoop(1, <<>>)

\* search_techniques(query): per technique, the keyword loop appends one
\* entry at the first keyword that holds the lower-cased query or is held by
\* it, and breaks.
SearchTechniques(query) ==
    LET query_lower == Lower(query)
        hit(t) == \E j \in 1..Len(TECHNIQUE_KEYWORDS[t].keywords) :
                      \/ IsSubstring(query_lower, TECHNIQUE_KEYWORDS[t].keywords[j])
                      \/ IsSubstring(TECHNIQUE_KEYWORDS[t].keywords[j], query_lower)
        RECURSIVE techniqueLoop(_, _)
        techniqueLoop(t, results) ==
            IF t > Len(TECHNIQUE_KEYWORDS) THEN results
            ELSE IF hit(t)
            THEN techniqueLoop(t + 1, Append(results,
                     [id |-> TECHNIQUE_KEYWORDS[t].id,
                      name |-> GetTechniqueName(TECHNIQUE_KEYWORDS[t].id),
                      tactic |-> IF TECHNIQUE_KEYWORDS[t].id \in DOMAIN TACTIC_MAPPING
                                 THEN TACTIC_MAPPING[TECHNIQUE_KEYWORDS[t].id] ELSE None,
                      keywords |-> TECHNIQUE_KEYWORDS[t].keywords,
                      url |-> <<"https://attack.mitre.org/techniques/",
                                TECHNIQUE_KEYWORDS[t].id, "/">>]))
            ELSE techniqueLoop(t + 1, results)
    IN techniqueLoop(1, <<>>)

\* update_mitre_data(): one requests.get; on a response the data file is
\* opened for writing, so it exists afterwards; on an error nothing changes
\* but the count of requests.
UpdateMitreData(h, response_ok) ==
    [h EXCEPT !.requests = @ + 1,
              !.data_file = @ \/ response_ok]

\* MITREMapper.__init__(update_on_init)
MitreMapperInit(h, update_on_init, response_ok) ==
    LET updated == IF update_on_init \/ ~h.data_file
                   THEN UpdateMitreData(h, response_ok)
                   ELSE h
    IN [updated EXCEPT !.mapper = TRUE]

\* Pieces of text; a description is up to MaxFragments of them in a row.
Fragments == {
    <<"P", "h", "i", "s", "h", "i", "n", "g", " ">>,
    <<"e", "m", "a", "i", "l">>,
    <<" ", "a", "t", "t", "a", "c", "k">>,
    <<"h", "t", "t", "p", "s", " ">>,
    <<"v", "p", "n", " ">>,
    <<"D", "e", "s", "c", "r", "i", "p", "t", "i", "o", "n", " ">>}

MaxFragments == 3

RECURSIVE Texts(_)
Texts(n) ==
    IF n = 0 THEN {<<>>}
    ELSE Texts(n - 1) \cup {t \o f : t \in Texts(n - 1), f \in Fragments}

Descriptions == Texts(MaxFragments)

\* Before a MITREMapper is constructed, on a host with or without the data
\* file; the text drawn serves as description and as query.
InitMitre ==
    /\ Idle
    /\ host \in [data_file : BOOLEAN, requests : {0}, mapper : {FALSE}]
    /\ input \in [description : Descriptions]

\* MITREMapper(update_on_init)
MitreInit ==
    \E update_on_init \in BOOLEAN, response_ok \in BOOLEAN :
        /\ ~host.mapper
        /\ host' = MitreMapperInit(host, update_on_init, response_ok)
        /\ op' = [name |-> "mitre_init", update_on_init |-> update_on_init]
        /\ UNCHANGED <<threat_database, cache, now, calls, input, config, mitre_memo>>

\* MITREMapper.map_to_mitre(description)
MapToMitreCall ==
    /\ host.mapper
    /\ op' = [name |-> "map_to_mitre", description |-> input.description,
              result |-> MapToMitre(input.description)]
    /\ UNCHANGED <<threat_database, cache, now, calls, input, config, mitre_memo, host>>

\* MITREMapper.search_techniques(query)
SearchTechniquesCall ==
    /\ host.mapper
    /\ op' = [name |-> "search_techniques", query |-> input.description,
              result |-> SearchTechniques(input.description)]
    /\ UNCHANGED <<threat_database, cache, now, calls, input, config, mitre_memo, host>>

NextMitre == MitreInit \/ MapToMitreCall \/ SearchTechniquesCall

SpecMitre == InitMitre /\ [][NextMitre]_vars

\* keyword occurs in text: some stretch of text is the keyword.
Occurs(keyword, text) ==
    \E i \in 1..(Len(text) + 1) :
        /\ i + Len(keyword) - 1 <= Len(text)
        /\ (keyword # <<>> => text[i] = keyword[1])
        /\ SubSeq(text, i, i + Len(keyword) - 1) = keyword

\* The techniques of the catalog with a keyword in the lower-cased text.
Matching(description) ==
    LET lowered == Lower(description)
    IN  {t \in 1..Len(TECHNIQUE_KEYWORDS) :
            \E j \in 1..Len(TECHNIQUE_KEYWORDS[t].keywords) :
                Occurs(TECHNIQUE_KEYWORDS[t].keywords[j], lowered)}

\* xs without the later copies of a value.
FirstOccurrences(xs) ==
    LET keep == {i \in 1..Len(xs) : \A j \in 1..(i - 1) : xs[j] # xs[i]}
        RECURSIVE pick(_)
        pick(i) == IF i > Len(xs) THEN <<>>
                   ELSE (IF i \in keep THEN <<xs[i]>> ELSE <<>>) \o pick(i + 1)
    IN pick(1)

NoDuplicates(xs) == \A i, j \in 1..Len(xs) : i # j => xs[i] # xs[j]

\* C9: techniques are exactly the catalog techniques with a keyword in the
\* lower-cased description, in catalog order, each once; tactics are their
\* distinct tactics in order of first occurrence; details has one entry per
\* technique, in the same order.
C9_MatchExact ==
    op.name = "map_to_mitre" =>
        LET r == op.result
            ids == [t \in 1..Len(TECHNIQUE_KEYWORDS) |-> TECHNIQUE_KEYWORDS[t].id]
        IN  /\ NoDuplicates(r.techniques)
            /\ NoDuplicates(r.tactics)
            /\ LET matching == Matching(op.description)
                   inOrder == SelectSeq([t \in 1..Len(ids) |-> t],
                                        LAMBDA t : t \in matching)
               IN  r.techniques = [i \in 1..Len(inOrder) |-> ids[inOrder[i]]]
            /\ r.tactics =
                  FirstOccurrences([i \in 1..Len(r.techniques) |->
                                       TACTIC_MAPPING[r.techniques[i]]])
            /\ Len(r.details) = Len(r.techniques)
            /\ \A i \in 1..Len(r.techniques) : r.details[i].id = r.techniques[i]

\* C9's case: two keywords of one technique occur, and two matched
\* techniques share a tactic.
C9_Witness ==
    /\ op.name = "map_to_mitre"
    /\ Len(op.result.tactics) < Len(op.result.techniques)
    /\ \E t \in Matching(op.description) :
          Cardinality({j \in 1..Len(TECHNIQUE_KEYWORDS[t].keywords) :
                          Occurs(TECHNIQUE_KEYWORDS[t].keywords[j],
                                 Lower(op.description))}) >= 2

(***************************************************************************)
(* llm_engine.py and analyzer.py: analyze_ioc.                             *)
(***************************************************************************)

\* LLMEngine._mock_response: the text returned without a model, and when the
\* model call raises.  It does not depend on the prompt.
MockResponse == <<
    "\n", "T", "H", "R", "E", "A", "T", " ", "A", "N", "A", "L", "Y", "S",
    "I", "S", " ", "(", "M", "o", "c", "k", " ", "M", "o", "d", "e", ")",
    ":", "\n", "\n", "T", "h", "e", " ", "a", "n", "a", "l", "y", "z", "e",
    "d", " ", "i", "n", "d", "i", "c", "a", "t", "o", "r", " ", "a", "p",
    "p", "e", "a", "r", "s", " ", "t", "o", " ", "b", "e", " ", "p", "o",
    "t", "e", "n", "t", "i", "a", "l", "l", "y", " ", "m", "a", "l", "i",
    "c", "i", "o", "u", "s", " ", "b", "a", "s", "e", "d", " ", "o", "n",
    " ", "p", "a", "t", "t", "e", "r", "n", " ", "a", "n", "a", "l", "y",
    "s", "i", "s", ".", "\n", "\n", "K", "e", "y", " ", "F", "i", "n", "d",
    "i", "n", "g", "s", ":", "\n", "-", " ", "I", "n", "d", "i", "c", "a",
    "t", "o", "r", " ", "s", "h", "o", "w", "s", " ", "c", "h", "a", "r",
    "a", "c", "t", "e", "r", "i", "s", "t", "i", "c", "s", " ", "a", "s",
    "s", "o", "c", "i", "a", "t", "e", "d", " ", "w", "i", "t", "h", " ",
    "k", "n", "o", "w", "n", " ", "t", "h", "r", "e", "a", "t", " ", "p",
    "a", "t", "t", "e", "r", "n", "s", "\n", "-", " ", "R", "e", "c", "o",
    "m", "m", "e", "n", "d", "e", "d", " ", "b", "l", "o", "c", "k", "i",
    "n", "g", " ", "a", "t", " ", "n", "e", "t", "w", "o", "r", "k", " ",
    "p", "e", "r", "i", "m", "e", "t", "e", "r", "\n", "-", " ", "M", "o",
    "n", "i", "t", "o", "r", " ", "f", "o", "r", " ", "r", "e", "l", "a",
    "t", "e", "d", " ", "i", "n", "d", "i", "c", "a", "t", "o", "r", "s",
    "\n", "-", " ", "R", "e", "v", "i", "e", "w", " ", "h", "i", "s", "t",
    "o", "r", "i", "c", "a", "l", " ", "l", "o", "g", "s", " ", "f", "o",
    "r", " ", "s", "i", "m", "i", "l", "a", "r", " ", "p", "a", "t", "t",
    "e", "r", "n", "s", "\n", "\n", "M", "I", "T", "R", "E", " ", "A", "T",
    "T", "&", "C", "K", " ", "M", "a", "p", "p", "i", "n", "g", ":", "\n",
    "-", " ", "T", "a", "c", "t", "i", "c", ":", " ", "I", "n", "i", "t",
    "i", "a", "l", " ", "A", "c", "c", "e", "s", "s", ",", " ", "E", "x",
    "e", "c", "u", "t", "i", "o", "n", "\n", "-", " ", "T", "e", "c", "h",
    "n", "i", "q", "u", "e", ":", " ", "T", "1", "5", "6", "6", " ", "(",
    "P", "h", "i", "s", "h", "i", "n", "g", ")", ",", " ", "T", "1", "0",
    "5", "9", " ", "(", "C", "o", "m", "m", "a", "n", "d", " ", "a", "n",
    "d", " ", "S", "c", "r", "i", "p", "t", "i", "n", "g", " ", "I", "n",
    "t", "e", "r", "p", "r", "e", "t", "e", "r", ")", "\n", "\n", "C", "o",
    "n", "f", "i", "d", "e", "n", "c", "e", " ", "L", "e", "v", "e", "l",
    ":", " ", "M", "e", "d", "i", "u", "m", " ", "(", "0", ".", "6", ")",
    "\n", "\n", "R", "e", "c", "o", "m", "m", "e", "n", "d", "a", "t", "i",
    "o", "n", "s", ":", "\n", "1", ".", " ", "I", "m", "p", "l", "e", "m",
    "e", "n", "t", " ", "n", "e", "t", "w", "o", "r", "k", "-", "l", "e",
    "v", "e", "l", " ", "b", "l", "o", "c", "k", "i", "n", "g", "\n", "2",
    ".", " ", "E", "n", "h", "a", "n", "c", "e", " ", "m", "o", "n", "i",
    "t", "o", "r", "i", "n", "g", " ", "a", "n", "d", " ", "d", "e", "t",
    "e", "c", "t", "i", "o", "n", " ", "r", "u", "l", "e", "s", "\n", "3",
    ".", " ", "C", "o", "n", "d", "u", "c", "t", " ", "t", "h", "r", "e",
    "a", "t", " ", "h", "u", "n", "t", "i", "n", "g", " ", "a", "c", "t",
    "i", "v", "i", "t", "i", "e", "s", "\n", "4", ".", " ", "U", "p", "d",
    "a", "t", "e", " ", "t", "h", "r", "e", "a", "t", " ", "i", "n", "t",
    "e", "l", "l", "i", "g", "e", "n", "c", "e", " ", "f", "e", "e", "d",
    "s", "\n", "\n", "N", "o", "t", "e", ":", " ", "T", "h", "i", "s", " ",
    "i", "s", " ", "a", " ", "m", "o", "c", "k", " ", "r", "e", "s", "p",
    "o", "n", "s", "e", ".", " ", "C", "o", "n", "f", "i", "g", "u", "r",
    "e", " ", "O", "p", "e", "n", "A", "I", " ", "A", "P", "I", " ", "k",
    "e", "y", " ", "f", "o", "r", " ", "f", "u", "l", "l", " ", "f", "u",
    "n", "c", "t", "i", "o", "n", "a", "l", "i", "t", "y", ".", "\n">>

NoDescription == <<"N", "o", " ", "d", "e", "s", "c", "r", "i", "p", "t", "i", "o", "n", " ", "a", "v", "a", "i", "l", "a", "b", "l", "e">>

DescriptionLimit == 500
ParsedConfidence == 70

\* _parse_llm_response(response)
ParseLlmResponse(response) ==
    [description |-> IF response # <<>> THEN PySlice(response, DescriptionLimit)
                     ELSE NoDescription,
     recommendations |-> <<"Monitor network traffic for suspicious activity",
                           "Block the indicator at perimeter defenses",
                           "Review logs for related indicators",
                           "Update threat intelligence feeds">>,
     sources |-> <<"LLM Analysis">>,
     confidence |-> ParsedConfidence]

\* LLMEngine.analyze(prompt): without a model the mock text; with one, what
\* the model answers, or the mock text when the call raises.
LlmAnalyze(llm, answer) ==
    IF llm = "mock" THEN MockResponse
    ELSE IF answer.raises THEN MockResponse
    ELSE answer.text

Alpha == {UpperCase[i] : i \in 1..26} \cup {LowerCase[i] : i \in 1..26}
AlNum == Alpha \cup Digits
HexChars == Digits \cup {"a", "b", "c", "d", "e", "f", "A", "B", "C", "D", "E", "F"}

AllIn(s, class) == \A i \in 1..Len(s) : s[i] \in class

\* What a pattern ending in $ may have matched: all of s, or s without one
\* final newline.
Bodies(s) ==
    {s} \cup (IF Len(s) > 0 /\ s[Len(s)] = "\n" THEN {SubSeq(s, 1, Len(s) - 1)} ELSE {})

\* ^(?:[0-9]{1,3}\.){3}[0-9]{1,3}$
MatchIp(s) ==
    \E b \in Bodies(s) :
        /\ NumParts(b) = 4
        /\ \A n \in 1..4 : /\ Len(NthPart(b, n)) \in 1..3
                           /\ AllIn(NthPart(b, n), Digits)

\* ^[a-zA-Z0-9][a-zA-Z0-9-]{0,61}[a-zA-Z0-9]?\.[a-zA-Z]{2,}$
MatchDomain(s) ==
    \E b \in Bodies(s) :
        /\ NumParts(b) = 2
        /\ Len(NthPart(b, 1)) \in 1..63
        /\ NthPart(b, 1)[1] \in AlNum
        /\ AllIn(NthPart(b, 1), AlNum \cup {"-"})
        /\ Len(NthPart(b, 2)) >= 2
        /\ AllIn(NthPart(b, 2), Alpha)

\* ^https?://
MatchUrl(s) ==
    \/ PySlice(s, 7) = <<"h", "t", "t", "p", ":", "/", "/">>
    \/ PySlice(s, 8) = <<"h", "t", "t", "p", "s", ":", "/", "/">>

\* ^[a-fA-F0-9]{n}$
MatchHash(s, n) == \E b \in Bodies(s) : Len(b) = n /\ AllIn(b, HexChars)

\* ^[a-zA-Z0-9._%+-]+@[a-zA-Z0-9.-]+\.[a-zA-Z]{2,}$
MatchEmail(s) ==
    \E b \in Bodies(s) :
        \E at \in 2..Len(b) :
            /\ b[at] = "@"
            /\ AllIn(SubSeq(b, 1, at - 1), AlNum \cup {".", "_", "%", "+", "-"})
            /\ \E dot \in (at + 2)..Len(b) :
                  /\ b[dot] = "."
                  /\ AllIn(SubSeq(b, at + 1, dot - 1), AlNum \cup {".", "-"})
                  /\ Len(b) - dot >= 2
                  /\ AllIn(SubSeq(b, dot + 1, Len(b)), Alpha)

\* detect_ioc_type(ioc): the first pattern of IOC_PATTERNS that matches.
DetectIocType(ioc) ==
    IF MatchIp(ioc) THEN "ip"
    ELSE IF MatchDomain(ioc) THEN "domain"
    ELSE IF MatchUrl(ioc) THEN "url"
    ELSE IF MatchHash(ioc, 32) THEN "hash_md5"
    ELSE IF MatchHash(ioc, 40) THEN "hash_sha1"
    ELSE IF MatchHash(ioc, 64) THEN "hash_sha256"
    ELSE IF MatchEmail(ioc) THEN "email"
    ELSE None

\* A plausible slip: no fallback when detection finds nothing.
ResolveIocTypeNoFallback(ioc, ioc_type) ==
    IF ioc_type # None /\ ioc_type # "" THEN ioc_type
    ELSE DetectIocType(ioc)

\* The ioc_type analyze_ioc works with: the one given, else the one detected,
\* else "unknown".
ResolveIocType(ioc, ioc_type) ==
    IF ioc_type # None /\ ioc_type # "" THEN ioc_type
    ELSE IF DetectIocType(ioc) # None THEN DetectIocType(ioc)
    ELSE "unknown"

\* self.mitre.map_to_mitre(description).  map_to_mitre is a pure function of
\* the description; its value is read from mitre_memo where that table has
\* it, and computed otherwise.
MitreOf(description) ==
    IF description \in DOMAIN mitre_memo
    THEN mitre_memo[description]
    ELSE MapToMitre(description)

\* A plausible slip: the score is computed without the technique mapping.
AnalyzeFreshScoreWithoutMapping(db, ioc, ioc_type, llm_response, ts) ==
    LET parsed_data == ParseLlmResponse(llm_response)
        mitre_mapping == MitreOf(parsed_data.description)
        threat_score == CalculateThreatScore(parsed_data, [tactics |-> <<>>])
        related_threats == FindRelated(db, ioc, ioc_type, DefaultMaxResults)
    IN  [ioc |-> ioc,
         ioc_type |-> ioc_type,
         threat_score |-> threat_score,
         severity |-> GetSeverity(threat_score),
         mitre_tactics |-> mitre_mapping.tactics,
         mitre_techniques |-> mitre_mapping.techniques,
         description |-> parsed_data.description,
         recommendations |-> parsed_data.recommendations,
         sources |-> parsed_data.sources,
         timestamp |-> ts,
         confidence |-> parsed_data.confidence,
         related_threats |-> related_threats]

\* analyze_ioc from the parsing of the response to the result it builds.
AnalyzeFresh(db, ioc, ioc_type, llm_response, ts) ==
    LET parsed_data == ParseLlmResponse(llm_response)
        mitre_mapping == MitreOf(parsed_data.description)
        threat_score == CalculateThreatScore(parsed_data, mitre_mapping)
        related_threats == FindRelated(db, ioc, ioc_type, DefaultMaxResults)
    IN  [ioc |-> ioc,
         ioc_type |-> ioc_type,
         threat_score |-> threat_score,
         severity |-> GetSeverity(threat_score),
         mitre_tactics |-> mitre_mapping.tactics,
         mitre_techniques |-> mitre_mapping.techniques,
         description |-> parsed_data.description,
         recommendations |-> parsed_data.recommendations,
         sources |-> parsed_data.sources,
         timestamp |-> ts,
         confidence |-> parsed_data.confidence,
         related_threats |-> related_threats]

\* The cache holds one value per key "ioc:<ioc>": a set of [key, value].
CacheHas(c, ioc) == \E e \in c : e.key = ioc

CacheGet(c, ioc) == (CHOOSE e \in c : e.key = ioc).value

\* setex: the value replaces what the key held.
CacheSet(c, ioc, value) ==
    {e \in c : e.key # ioc} \cup {[key |-> ioc, value |-> value]}

(***************************************************************************)
(* The analyzer: a ThreatAnalyzer with or without a model and a cache,     *)
(* analyze_ioc, and direct use of its correlator.                          *)
(***************************************************************************)

Unknown == <<"?", "?">>

AnalyzedIocs == {Ip1111, Unknown}

\* ioc_type as passed to analyze_ioc: absent or given.
TypeArgs == {None, "ip"}

\* [n spaces]
Pad(n) == [i \in 1..n |-> " "]

\* "phishing cmd download http vpn cve": keywords of seven techniques.
ManyTechniques == <<"p", "h", "i", "s", "h", "i", "n", "g", " ", "c", "m", "d", " ",
                    "d", "o", "w", "n", "l", "o", "a", "d", " ", "h", "t", "t", "p",
                    " ", "v", "p", "n", " ", "c", "v", "e">>

\* What a model may answer: nothing; a text naming phishing; a text naming
\* seven techniques; a text whose only keywords lie beyond the first
\* DescriptionLimit characters.
LiveAnswers ==
    {Empty,
     <<"P", "h", "i", "s", "h", "i", "n", "g", " ">>,
     ManyTechniques,
     Pad(DescriptionLimit - 4) \o <<"p", "h", "i", "s", "h", "i", "n", "g", " ",
                                    "h", "t", "t", "p", "s">>}

\* What the call of the model does: it raises, or it answers a text.  Without
\* a model there is no call.
LlmOutcomes(llm) ==
    IF llm = "mock" THEN {[raises |-> FALSE, text |-> Empty]}
    ELSE {[raises |-> TRUE, text |-> Empty]}
         \cup {[raises |-> FALSE, text |-> a] : a \in LiveAnswers}

\* Records put into the analyzer's correlator by its owner.
SeededValues == {Ip1112}
SeededTypes == {"ip", "domain"}
MaxSeeded == 1

\* The descriptions analyze_ioc can parse out of the responses above.
PossibleDescriptions ==
    {ParseLlmResponse(LlmAnalyze(llm, answer)).description :
        llm \in {"mock", "live"}, answer \in LlmOutcomes("live")}

InitAnalyzer ==
    /\ threat_database = <<>>
    /\ cache = {}
    /\ now = 0
    /\ calls = [t \in Types |-> 0]
    /\ input = None
    /\ config \in [llm : {"mock", "live"}, use_cache : BOOLEAN]
    /\ mitre_memo = [d \in PossibleDescriptions |-> MapToMitre(d)]
    /\ host = WithMapper
    /\ op = [name |-> "init"]

\* ThreatAnalyzer.analyze_ioc(ioc, ioc_type, context).  CacheManager turns an
\* error of the cache into a miss (get) or a no-op (set): for the results and
\* the cache that is a key missing before, or dropped after, the call, which
\* CacheExpire covers.
AnalyzeIoc ==
    \E ioc \in AnalyzedIocs, ioc_type_arg \in TypeArgs,
       answer \in LlmOutcomes(config.llm) :
        LET ioc_type == ResolveIocType(ioc, ioc_type_arg)
            hit == config.use_cache /\ CacheHas(cache, ioc)
            result == IF hit THEN CacheGet(cache, ioc)
                      ELSE AnalyzeFresh(threat_database, ioc, ioc_type,
                                        LlmAnalyze(config.llm, answer), now)
        IN  /\ op' = [name |-> "analyze_ioc", ioc |-> ioc,
                      ioc_type_arg |-> ioc_type_arg, ioc_type |-> ioc_type,
                      from_cache |-> hit, result |-> result]
            /\ cache' = IF ~hit /\ config.use_cache
                        THEN CacheSet(cache, ioc, result)
                        ELSE cache
            /\ UNCHANGED <<threat_database, now, calls, input, config, mitre_memo, host>>

\* analyzer.correlator.add_threat(ioc, ioc_type, metadata)
SeedThreat ==
    \E ioc \in SeededValues, ioc_type \in SeededTypes, metadata \in Metadata :
        /\ TotalThreats(threat_database) < MaxSeeded
        /\ AddThreatStep(ioc, ioc_type, metadata)

\* The cache drops a key: its ttl ran out.
CacheExpire ==
    \E e \in cache :
        /\ cache' = cache \ {e}
        /\ op' = [name |-> "cache_expire", ioc |-> e.key]
        /\ UNCHANGED <<threat_database, now, calls, input, config, mitre_memo, host>>

NextAnalyzer == AnalyzeIoc \/ SeedThreat \/ CacheExpire \/ GetStatisticsCall

SpecAnalyzer == InitAnalyzer /\ [][NextAnalyzer]_vars

\* C2: every completed analyze_ioc appends one record to the store, so
\* total_threats grows by 1 per analysis.
C2_AnalyzeRecords ==
    [][(op'.name = "analyze_ioc" /\ op' # op)
          => TotalThreats(threat_database') = TotalThreats(threat_database) + 1]_vars

\* C10: a result for an ip IOC whose description matches T1566 and nothing
\* else, at confidence 0.7, has T1566 among its techniques, Initial Access
\* among its tactics, the score 38.5 and the severity LOW.
C10_EndToEnd ==
    (/\ op.name = "analyze_ioc"
     /\ op.result.ioc_type = "ip"
     /\ op.result.confidence = 70
     /\ Matching(op.result.description) = {1}
     /\ TECHNIQUE_KEYWORDS[1].id = "T1566")
    => /\ InSeq("T1566", op.result.mitre_techniques)
       /\ InSeq("Initial Access", op.result.mitre_tactics)
       /\ op.result.threat_score = 3850
       /\ op.result.severity = "LOW"

\* C10's case: an ip IOC analyzed afresh on a text that names phishing only.
C10_Witness ==
    /\ op.name = "analyze_ioc"
    /\ ~op.from_cache
    /\ op.ioc = Ip1111
    /\ op.result.ioc_type = "ip"
    /\ op.result.mitre_techniques = <<"T1566">>
    /\ op.result.threat_score = 3850
    /\ op.result.severity = "LOW"

(***************************************************************************)
(* batch_analyze.  Python does not enforce List[str]: an item that is not  *)
(* a str makes analyze_ioc raise where the code needs a str.               *)
(***************************************************************************)

\* An item that is not a str: Python's None, kept as a one-element list so
\* that it compares with the strs in the store and the cache.
NoneItem == <<None>>

IsStr(ioc) == ioc # NoneItem

\* Whether analyze_ioc(ioc, ioc_type) raises: re.match refuses a non-str when
\* the type has to be detected; on a cache miss, ioc.split of the domain
\* branch of _calculate_similarity, outside any try, fails on a non-str once a
\* domain record is scanned.  The ip branch swallows that error.
AnalyzeRaises(db, c, cfg, ioc, ioc_type_arg) ==
    /\ ~IsStr(ioc)
    /\ \/ ioc_type_arg \in {None, ""}
       \/ /\ ioc_type_arg = "domain"
          /\ ~(cfg.use_cache /\ CacheHas(c, ioc))
          /\ DbGet(db, "domain") # <<>>

\* What analyze_ioc leaves once it has its result: the result is cached
\* when it was computed and there is a cache.
Analyzed(c, cfg, ioc, hit, result) ==
    [raised |-> FALSE,
     result |-> result,
     cache |-> IF ~hit /\ cfg.use_cache THEN CacheSet(c, ioc, result) ELSE c]

\* analyze_ioc as a function of the analyzer's state: whether it raised, what
\* it returned, and the cache it leaves.
AnalyzeIocCall(db, c, cfg, ioc, ioc_type_arg, answer, ts) ==
    IF AnalyzeRaises(db, c, cfg, ioc, ioc_type_arg)
    THEN [raised |-> TRUE, result |-> None, cache |-> c]
    ELSE IF cfg.use_cache /\ CacheHas(c, ioc)
    THEN Analyzed(c, cfg, ioc, TRUE, CacheGet(c, ioc))
    ELSE Analyzed(c, cfg, ioc, FALSE,
                  AnalyzeFresh(db, ioc, ResolveIocType(ioc, ioc_type_arg),
                               LlmAnalyze(cfg.llm, answer), ts))

\* One turn of batch_analyze's loop: the result is appended, or the item's
\* exception is logged and the item is left out.
BatchItem(acc, r) ==
    IF r.raised THEN acc
    ELSE [results |-> Append(acc.results, r.result), cache |-> r.cache]

\* batch_analyze(iocs, ioc_type): the loop with its try/except per item.
BatchAnalyze(db, c, cfg, iocs, ioc_type_arg, answer, ts) ==
    LET RECURSIVE loop(_, _)
        loop(i, acc) ==
            IF i > Len(iocs) THEN acc
            ELSE loop(i + 1,
                      BatchItem(acc, AnalyzeIocCall(db, acc.cache, cfg, iocs[i],
                                                    ioc_type_arg, answer, ts)))
    IN loop(1, [results |-> <<>>, cache |-> c])

BatchItems == {Ip1111, Unknown, NoneItem}

\* A batch has at most MaxBatch items.
MaxBatch == 2

Batches == UNION {[1..n -> BatchItems] : n \in 0..MaxBatch}

\* An analyzer without a model, with or without a cache.
InitBatch ==
    /\ threat_database = <<>>
    /\ cache = {}
    /\ now = 0
    /\ calls = [t \in Types |-> 0]
    /\ input = None
    /\ config \in [llm : {"mock"}, use_cache : BOOLEAN]
    /\ mitre_memo = [d \in PossibleDescriptions |-> MapToMitre(d)]
    /\ host = WithMapper
    /\ op = [name |-> "init"]

\* ThreatAnalyzer.batch_analyze(iocs, ioc_type)
BatchAnalyzeCall ==
    \E iocs \in Batches, ioc_type_arg \in TypeArgs, answer \in LlmOutcomes(config.llm) :
        \E r \in {BatchAnalyze(threat_database, cache, config, iocs, ioc_type_arg,
                               answer, now)} :
            /\ op' = [name |-> "batch_analyze", iocs |-> iocs,
                      ioc_type_arg |-> ioc_type_arg, result |-> r.results]
            /\ cache' = r.cache
            /\ UNCHANGED <<threat_database, now, calls, input, config, mitre_memo, host>>

NextBatch == BatchAnalyzeCall \/ AnalyzeIoc \/ CacheExpire

SpecBatch == InitBatch /\ [][NextBatch]_vars

\* The items of a batch whose analysis does not raise, in input order: with
\* an empty store, the strs, and every item when a type is given.
NonFailing(iocs, ioc_type_arg) ==
    SelectSeq(iocs, LAMBDA x : IsStr(x) \/ ioc_type_arg # None)

\* C11: batch_analyze returns the results of the non-failing items in input
\* order: none for an empty list, a failing item is left out and the items
\* after it are still analyzed, and a result carries the ioc_type the batch
\* was called with.
C11_BatchResults ==
    op.name = "batch_analyze" =>
        LET ok == NonFailing(op.iocs, op.ioc_type_arg)
        IN  /\ Len(op.result) = Len(ok)
            /\ \A i \in 1..Len(ok) : op.result[i].ioc = ok[i]
            /\ (op.iocs = <<>> => op.result = <<>>)
            /\ (op.ioc_type_arg # None =>
                   /\ Len(op.result) = Len(op.iocs)
                   /\ \A i \in 1..Len(op.result) :
                         op.result[i].ioc_type = op.ioc_type_arg)

(***************************************************************************)
(* Claims about analyze_ioc on an IOC no pattern recognises.               *)
(***************************************************************************)

\* analyze_ioc was called without a type on an IOC that no pattern matches.
UnrecognisedCall ==
    /\ op.name = "analyze_ioc"
    /\ op.ioc_type_arg = None
    /\ DetectIocType(op.ioc) = None

SearchMatching(query) ==
    LET lowered == Lower(query)
    IN  {t \in 1..Len(TECHNIQUE_KEYWORDS) :
            \E j \in 1..Len(TECHNIQUE_KEYWORDS[t].keywords) :
                \/ Occurs(lowered, TECHNIQUE_KEYWORDS[t].keywords[j])
                \/ Occurs(TECHNIQUE_KEYWORDS[t].keywords[j], lowered)}

\* C13: search_techniques returns, in catalog order and each once, exactly
\* the techniques with a keyword that contains the lower-cased query or is
\* contained in it.
C13_SearchBothWays ==
    op.name = "search_techniques" =>
        LET matching == SearchMatching(op.query)
            inOrder == SelectSeq([t \in 1..Len(TECHNIQUE_KEYWORDS) |-> t],
                                 LAMBDA t : t \in matching)
        IN  /\ Len(op.result) = Len(inOrder)
            /\ \A i \in 1..Len(inOrder) :
                  /\ op.result[i].id = TECHNIQUE_KEYWORDS[inOrder[i]].id
                  /\ op.result[i].keywords = TECHNIQUE_KEYWORDS[inOrder[i]].keywords
            /\ \A i, j \in 1..Len(op.result) :
                  i # j => op.result[i].id # op.result[j].id

\* C13's case: a non-empty query finds a technique only because it is a
\* fragment of one of its keywords, none of which the query contains.
C13_Witness ==
    /\ op.name = "search_techniques"
    /\ op.query # <<>>
    /\ \E i \in 1..Len(op.result) :
          /\ \E j \in 1..Len(op.result[i].keywords) :
                /\ Len(op.query) < Len(op.result[i].keywords[j])
                /\ Occurs(Lower(op.query), op.result[i].keywords[j])
          /\ \A j \in 1..Len(op.result[i].keywords) :
                ~Occurs(op.result[i].keywords[j], Lower(op.query))

\* C15: no operation of the core sends a network request: none has been
\* sent in any reachable state, construction of the mapper included.
C15_NoNetworkRequest == host.requests = 0

(***************************************************************************)
(* Claims about the limit, the candidates and the frame of find_related.   *)
(***************************************************************************)

\* The candidates of the last find_related, sorted: by level, highest first.
FullSorted ==
    ByLevel(Candidates(threat_database, op.ioc, op.ioc_type), SimHashEqual)

\* C14: for every integer max_results, find_related returns a prefix of the
\* sorted candidates, of length at most max(max_results, 0), and of length
\* min(max_results, k) when max_results >= 0 and there are k candidates.
C14_LimitRespected ==
    op.name = "find_related" =>
        /\ Len(op.result) <= Len(FullSorted)
        /\ op.result = SubSeq(FullSorted, 1, Len(op.result))
        /\ Len(op.result) <= Max(op.max_results, 0)
        /\ (op.max_results >= 0 =>
               Len(op.result) = Min(op.max_results, Len(FullSorted)))

\* The entry find_related makes of a record.
RelatedEntry(r, similarity, relationship) ==
    [ioc |-> r.ioc, type |-> r.type, similarity |-> similarity,
     relationship |-> relationship, metadata |-> r.metadata]

\* The candidates as C16 describes them: the records of the queried type
\* with another value and a similarity above 0.5, in their order, then, for
\* an ip query only, every domain record at 0.7.
DescribedCandidates(db, ioc, ioc_type) ==
    LET kept == SelectSeq(DbGet(db, ioc_type),
                          LAMBDA r : /\ r.ioc # ioc
                                     /\ CalculateSimilarity(ioc, r.ioc, ioc_type)
                                           > SimThreshold)
        domains == IF ioc_type = "ip" THEN DbGet(db, "domain") ELSE <<>>
    IN  [i \in 1..Len(kept) |->
            RelatedEntry(kept[i], CalculateSimilarity(ioc, kept[i].ioc, ioc_type),
                         "same_type")]
        \o [i \in 1..Len(domains) |->
               RelatedEntry([domains[i] EXCEPT !.type = "domain"], SimCrossType,
                            "dns_resolution")]

\* C16: what find_related returns is the described candidates, sorted and
\* cut; a query of a type other than ip gets no cross-type entry, so its
\* entries all come from records of the queried type.
C16_CandidatesExact ==
    op.name = "find_related" =>
        /\ op.result = PySlice(ByLevel(DescribedCandidates(threat_database, op.ioc,
                                                           op.ioc_type),
                                       SimHashEqual),
                               op.max_results)
        /\ \A i \in 1..Len(op.result) :
              /\ op.result[i].similarity > SimThreshold
              /\ op.result[i].relationship = "dns_resolution" => op.ioc_type = "ip"
              /\ op.ioc_type # "ip" =>
                    /\ op.result[i].relationship = "same_type"
                    /\ op.result[i].type = op.ioc_type

\* C16's case: a domain query whose result keeps one domain record, while
\* the store also holds a domain record below the threshold and an ip record.
C16_Witness ==
    /\ op.name = "find_related"
    /\ op.ioc_type = "domain"
    /\ op.max_results = DefaultMaxResults
    /\ Len(op.result) = 1
    /\ DbGet(threat_database, "ip") # <<>>
    /\ \E i \in 1..Len(DbGet(threat_database, "domain")) :
          LET r == DbGet(threat_database, "domain")[i]
          IN  /\ r.ioc # op.ioc
              /\ CalculateSimilarity(op.ioc, r.ioc, "domain") = SimDefault

(***************************************************************************)
(* The store over time: records are added while the clock advances, and    *)
(* every operation of the correlator is called.                            *)
(***************************************************************************)

StoreValues == {Ip1111, Ip1112}
StoreTypes == {"ip", "domain"}

\* time_window values, in ticks of the clock.
Windows == {0, 1}

\* The store holds at most MaxStored records, and the clock stops at MaxTime.
MaxStored == 3
MaxTime == 1

\* add_threat, which reads the clock for the record's timestamp.
RecordThreat ==
    \E ioc \in StoreValues, ioc_type \in StoreTypes, metadata \in Metadata :
        /\ TotalThreats(threat_database) < MaxStored
        /\ AddThreatStep(ioc, ioc_type, metadata)

\* find_related(ioc, ioc_type) with the default limit.
FindRelatedDefaultCall ==
    \E ioc \in StoreValues, ioc_type \in Types :
        /\ op' = [name |-> "find_related", ioc |-> ioc, ioc_type |-> ioc_type,
                  max_results |-> DefaultMaxResults,
                  result |-> FindRelated(threat_database, ioc, ioc_type,
                                         DefaultMaxResults)]
        /\ UNCHANGED <<threat_database, cache, now, calls, input, config, mitre_memo, host>>

\* ThreatCorrelator.cluster_threats(time_window)
ClusterThreatsCall ==
    \E time_window \in Windows :
        /\ op' = [name |-> "cluster_threats", time_window |-> time_window,
                  result |-> ClusterThreats(threat_database, now, time_window)]
        /\ UNCHANGED <<threat_database, cache, now, calls, input, config, mitre_memo, host>>

\* Time passes.
Tick ==
    /\ now < MaxTime
    /\ now' = now + 1
    /\ op' = [name |-> "tick"]
    /\ UNCHANGED <<threat_database, cache, calls, input, config, mitre_memo, host>>

NextStore ==
    RecordThreat \/ FindRelatedDefaultCall \/ ClusterThreatsCall
        \/ GetStatisticsCall \/ Tick

SpecStore == Init /\ [][NextStore]_vars

\* All records of the store, type by type in key order.
AllRecords(db) ==
    LET RECURSIVE cat(_)
        cat(k) == IF k > Len(db) THEN <<>> ELSE db[k].threats \o cat(k + 1)
    IN cat(1)

\* C18: cluster_threats returns no cluster when no record lies within the
\* window, and else one cluster that counts every such record and shows the
\* first 10 of them in the order of their insertion into the store: a record
\* shown earlier was not inserted later, so its timestamp is not later, and
\* no record left out was inserted before one that is shown.
C18_ClusterInsertionOrder ==
    op.name = "cluster_threats" =>
        LET inside == SelectSeq(AllRecords(threat_database),
                                LAMBDA r : now - r.timestamp <= op.time_window)
        IN  IF inside = <<>> THEN op.result = <<>>
            ELSE /\ Len(op.result) = 1
                 /\ op.result[1].threat_count = Len(inside)
                 /\ Len(op.result[1].threats) = Min(ClusterDisplayLimit, Len(inside))
                 /\ \A i, j \in 1..Len(op.result[1].threats) :
                       i < j => op.result[1].threats[i].timestamp
                                    <= op.result[1].threats[j].timestamp

\* C17: the store is append-only and only add_threat changes it: add_threat
\* puts one record, with the clock's time, at the end of its type's list and
\* leaves the other records and lists as they are; find_related,
\* cluster_threats and get_statistics leave the store as it is, so a query
\* creates no key and by_type lists only types that were recorded.
C17_AppendOnlyFrame ==
    [][/\ op'.name = "add_threat" =>
             /\ DbGet(threat_database', op'.ioc_type) =
                   Append(DbGet(threat_database, op'.ioc_type),
                          [ioc |-> op'.ioc, type |-> op'.ioc_type,
                           metadata |-> op'.metadata, timestamp |-> now])
             /\ \A t \in Types \ {op'.ioc_type} :
                   DbGet(threat_database', t) = DbGet(threat_database, t)
             /\ DbKeys(threat_database') =
                   IF DbHas(threat_database, op'.ioc_type)
                   THEN DbKeys(threat_database)
                   ELSE Append(DbKeys(threat_database), op'.ioc_type)
       /\ op'.name \in {"find_related", "cluster_threats", "get_statistics", "tick"} =>
             threat_database' = threat_database
       /\ op'.name = "get_statistics" =>
             \A i \in 1..Len(op'.result.by_type) :
                 calls'[op'.result.by_type[i].key] > 0]_vars

\* C17's case: a record was appended to a list that had one already, beside
\* the list of another type; hash_md5, which is only ever queried, has no key.
C17_Witness ==
    /\ op.name = "add_threat"
    /\ Len(DbGet(threat_database, op.ioc_type)) >= 2
    /\ Len(threat_database) = 2
    /\ ~DbHas(threat_database, "hash_md5")

\* C20: _calculate_similarity is symmetric in its two IOC arguments, for
\* every type and for malformed strings too.
C20_SimilaritySymmetric ==
    op.name = "calculate_similarity" =>
        op.result = CalculateSimilarity(op.ioc2, op.ioc1, op.ioc_type)

\* C20's case: an ip comparison of a malformed string with a longer one
\* that agrees with it on the first two parts.
C20_Witness ==
    /\ op.name = "calculate_similarity"
    /\ op.ioc_type = "ip"
    /\ ~WellFormedIp(op.ioc1)
    /\ Len(op.ioc1) < Len(op.ioc2)
    /\ op.result = SimSameSubnet16

(***************************************************************************)
(* Claims about the cache of analyze_ioc.                                  *)
(***************************************************************************)

\* C21: with or without a cache, the result of analyze_ioc has the ioc that
\* was asked about and the ioc_type of the call, the one given or else the
\* one detected, also when the answer comes from the cache.
C21_ResultMatchesRequest ==
    op.name = "analyze_ioc" =>
        /\ op.result.ioc = op.ioc
        /\ op.result.ioc_type = op.ioc_type

(***************************************************************************)
(* The store with hashes: records of the three hash types and of domains,  *)
(* and queries of the hash types.                                          *)
(***************************************************************************)

HashA == <<"a", "1">>
HashB == <<"b", "2">>

HashValues == {HashA, HashB}
HashStoreTypes == HashTypes \cup {"domain"}

InitHash ==
    /\ threat_database = <<>>
    /\ cache = {}
    /\ now = 0
    /\ calls = [t \in Types \cup HashStoreTypes |-> 0]
    /\ input = None
    /\ config = None
    /\ mitre_memo = <<>>
    /\ host = NoMapper
    /\ op = [name |-> "init"]

\* add_threat of a hash or a domain.
RecordHash ==
    \E ioc \in HashValues, ioc_type \in HashStoreTypes, metadata \in Metadata :
        /\ TotalThreats(threat_database) < MaxStored
        /\ AddThreatStep(ioc, ioc_type, metadata)

\* find_related of a hash, with the default limit.
FindRelatedHashCall ==
    \E ioc \in HashValues, ioc_type \in HashTypes :
        /\ op' = [name |-> "find_related", ioc |-> ioc, ioc_type |-> ioc_type,
                  max_results |-> DefaultMaxResults,
                  result |-> FindRelated(threat_database, ioc, ioc_type,
                                         DefaultMaxResults)]
        /\ UNCHANGED <<threat_database, cache, now, calls, input, config, mitre_memo, host>>

NextHash == RecordHash \/ FindRelatedHashCall

SpecHash == InitHash /\ [][NextHash]_vars

\* C22: find_related of any hash type returns the empty list, whatever the
\* store holds.
C22_HashNeverRelated ==
    (op.name = "find_related" /\ op.ioc_type \in HashTypes) => op.result = <<>>

\* C22's case: a hash query on a store that holds, under the queried type,
\* the queried hash and another one, and a domain record beside them.
C22_Witness ==
    /\ op.name = "find_related"
    /\ op.ioc_type \in HashTypes
    /\ op.result = <<>>
    /\ \E i, j \in 1..Len(DbGet(threat_database, op.ioc_type)) :
          /\ DbGet(threat_database, op.ioc_type)[i].ioc = op.ioc
          /\ DbGet(threat_database, op.ioc_type)[j].ioc # op.ioc
    /\ DbGet(threat_database, "domain") # <<>>

(***************************************************************************)
(* Claims about the score of a computed result.                            *)
(***************************************************************************)

\* C23: a result that analyze_ioc computes, not one taken from the cache, has
\* the confidence 0.7 and the score 0.7 * (50 + min(5n, 30)) for its n
\* techniques, a score from 35 to 56, and the severity LOW or MEDIUM.
C23_ComputedScore ==
    (op.name = "analyze_ioc" /\ ~op.from_cache) =>
        LET n == Len(op.result.mitre_techniques)
            bonus == IF 5 * n < 30 THEN 5 * n ELSE 30
        IN  /\ op.result.confidence = 70
            /\ op.result.threat_score = 70 * (50 + bonus)
            /\ op.result.threat_score >= 3500
            /\ op.result.threat_score <= 5600
            /\ op.result.severity \in {"LOW", "MEDIUM"}

\* C23's case: a computed result with more than six techniques, at the top
\* of the range.
C23_Witness ==
    /\ op.name = "analyze_ioc"
    /\ ~op.from_cache
    /\ Len(op.result.mitre_techniques) > 6
    /\ op.result.threat_score = 5600
    /\ op.result.severity = "MEDIUM"

\* C23's other end: a computed result with no technique, at the bottom.
C23_WitnessLow ==
    /\ op.name = "analyze_ioc"
    /\ ~op.from_cache
    /\ Len(op.result.mitre_techniques) = 0
    /\ op.result.threat_score = 3500
    /\ op.result.severity = "LOW"

====
